---- MODULE Spec2Model ----
(***************************************************************************)
(* A model of the NER notebook's own code (src/neural_ner.ipynb):          *)
(*   read_data, build_dict, words2idxs / tags2idxs, batches_generator,     *)
(*   train_one_epoch, test_model and train_model.                          *)
(* The tagger network, the loss and the optimizer are external: a forward   *)
(* pass is an arbitrary result, a gradient step is a new parameter version. *)
(***************************************************************************)
EXTENDS Integers, Sequences, FiniteSets, TLC

VARIABLES
    \* read_data
    file_lines,     \* the lines of the corpus file, each stripped and split into fields
    rpc,            \* "call", "returned" or "raised"
    read_ret,       \* what the caller of read_data received
    \* build_dict and the lookups through the module-level mappings
    tokens_or_tags, \* build_dict's first argument
    special_tokens, \* build_dict's second argument
    dpc,            \* "call", "built" or "looked"
    token2idx,      \* the module-level symbol -> id mapping (a defaultdict)
    idx2token,      \* the module-level id -> symbol mapping
    tag2idx,        \* the module-level tag -> id mapping (a defaultdict)
    lookup_arg,     \* the last list handed to words2idxs
    lookup_ret,     \* the ids words2idxs returned for it
    \* batches_generator
    tokens,         \* its tokens argument: a list of token lists
    tags,           \* its tags argument: a list of tag lists
    batch_size,
    shuffle,
    allow_smaller_last_batch,
    gpc,            \* "call", "running" or "done"
    order,          \* the permutation of sample indices drawn at the first next()
    n_batches,
    k,              \* the loop variable of the generator
    batch,          \* the last batch yielded
    n_yielded,      \* how many batches the consumer received
    served,         \* the sample indices behind each batch yielded, in order
    \* train_model
    n_epochs,
    tpc,            \* "init", "train", "eval", "done" or "raised"
    epoch,
    batch_id,       \* batches consumed in the running pass
    params,         \* version of the tagger's parameters (one per optimizer step)
    best_acc,
    correct,        \* test_model's running count of matching positions
    acc,            \* the value test_model returned last
    snapshot,       \* the files under path_to_model: a set of saved parameter versions
    writer,         \* the writer argument: a SummaryWriter, "open" or "closed", or "none"
    log,            \* what has happened, in order
    \* predict_sentence
    tagger,         \* the trained network: which tag it scores highest where
    sentence,       \* predict_sentence's first argument
    tags_arg,       \* its tags argument; <<>> stands for None
    verbosity,
    true_tags,      \* the module-level name true_tags: bound or not, and its value
    ppc,            \* "call", "returned" or "raised"
    pred_ret,       \* the tag strings returned
    pred_correct,   \* the count printed as "Correct tags"; -1 when nothing is printed
    \* test_model on the test set
    test_pc,        \* "idle", "call", "running" or "returned"
    test_order,     \* the order its batches_generator drew
    test_k,         \* batches consumed so far
    test_loss,      \* loss, a fraction
    test_correct,   \* correct, a fraction
    test_n,         \* n, the batches counted
    test_n_samples, \* n_samples
    test_returns    \* what the finished runs gave: accuracy and loss

vars == <<file_lines, rpc, read_ret,
          tokens_or_tags, special_tokens, dpc, token2idx, idx2token, tag2idx,
          lookup_arg, lookup_ret,
          tokens, tags, batch_size, shuffle, allow_smaller_last_batch, gpc,
          order, n_batches, k, batch, n_yielded, served,
          n_epochs, tpc, epoch, batch_id, params, best_acc, correct, acc, snapshot,
          writer, log,
          tagger, sentence, tags_arg, verbosity, true_tags, ppc, pred_ret, pred_correct,
          test_pc, test_order, test_k, test_loss, test_correct, test_n, test_n_samples,
          test_returns>>

testVars == <<test_pc, test_order, test_k, test_loss, test_correct, test_n,
              test_n_samples, test_returns>>

predictVars == <<tagger, sentence, tags_arg, verbosity, true_tags, ppc, pred_ret,
                 pred_correct>>
readVars  == <<file_lines, rpc, read_ret>>
dictVars  == <<tokens_or_tags, special_tokens, dpc, idx2token, lookup_arg, lookup_ret>>
vocabVars == <<token2idx, tag2idx>>
genVars   == <<tokens, tags, shuffle, allow_smaller_last_batch, gpc,
               order, n_batches, k, batch, n_yielded, served>>
trainVars == <<n_epochs, tpc, epoch, batch_id, params, best_acc, correct, acc, snapshot,
               writer, log>>

----------------------------------------------------------------------------
(* Bounds of the model *)

MaxLines == 4
MaxSpecial == 2
MaxSeqs == 1
MaxSeqLen == 2
MaxSamples == 3
MaxBatchSize == 3
MaxEpochs == 3
MaxPredictLen == 3

----------------------------------------------------------------------------
(* Small helpers *)

SeqsUpTo(S, n) == UNION {[1..m -> S] : m \in 0..n}

RECURSIVE Flatten(_)
Flatten(ss) == IF ss = <<>> THEN <<>> ELSE Head(ss) \o Flatten(Tail(ss))

Range(s) == {s[i] : i \in DOMAIN s}

----------------------------------------------------------------------------
(* read_data *)

\* str.startswith over the tokens the model's files use
StartsWith(token, prefix) ==
    \/ prefix = "http://"  /\ token = "http://t.co"
    \/ prefix = "https://" /\ token = "https://t.co"
    \/ prefix = "@"        /\ token = "@bob"

\* The lines a file of the model is made of: line.strip().split() of a blank
\* line is <<>>; a well-formed line has two fields.
FileLines ==
    { <<>>,
      <<"Ian", "B-PER">>, <<"works", "O">>,
      <<"@bob", "O">>, <<"http://t.co", "O">>, <<"https://t.co", "O">>,
      <<"Ian">>, <<"Ian", "B-PER", "x">> }

\* The locals of read_data; raised is set when the unpacking of line.split()
\* raises ValueError and the call is abandoned.
ReadStart ==
    [tokens |-> <<>>, tags |-> <<>>, tweet_tokens |-> <<>>, tweet_tags |-> <<>>,
     raised |-> FALSE, at |-> 0]

Normalize(token) ==
    LET t1 == IF StartsWith(token, "http://") \/ StartsWith(token, "https://")
              THEN "<URL>" ELSE token
    IN  IF StartsWith(t1, "@") THEN "<USR>" ELSE t1

\* A read_data that drops a malformed line and reads on
ReadLineLenient(st, line, i) ==
    IF line = <<>>
    THEN [st EXCEPT !.tokens = IF st.tweet_tokens # <<>> THEN Append(@, st.tweet_tokens) ELSE @,
                    !.tags   = IF st.tweet_tokens # <<>> THEN Append(@, st.tweet_tags) ELSE @,
                    !.tweet_tokens = <<>>,
                    !.tweet_tags = <<>>]
    ELSE IF Len(line) # 2
    THEN st
    ELSE [st EXCEPT !.tweet_tokens = Append(@, Normalize(line[1])),
                    !.tweet_tags = Append(@, line[2])]

\* One iteration of the loop over the file's lines
ReadLine(st, line, i) ==
    IF line = <<>>
    THEN [st EXCEPT !.tokens = IF st.tweet_tokens # <<>> THEN Append(@, st.tweet_tokens) ELSE @,
                    !.tags   = IF st.tweet_tokens # <<>> THEN Append(@, st.tweet_tags) ELSE @,
                    !.tweet_tokens = <<>>,
                    !.tweet_tags = <<>>]
    ELSE IF Len(line) # 2
    THEN [st EXCEPT !.raised = TRUE, !.at = i]
    ELSE [st EXCEPT !.tweet_tokens = Append(@, Normalize(line[1])),
                    !.tweet_tags = Append(@, line[2])]

RECURSIVE ReadLoop(_, _, _)
ReadLoop(st, lines, i) ==
    IF i > Len(lines) \/ st.raised THEN st
    ELSE ReadLoop(ReadLine(st, lines[i], i), lines, i + 1)

\* read_data(file_path): the loop, then `return tokens, tags`
read_data(lines) ==
    LET st == ReadLoop(ReadStart, lines, 1)
    IN  IF st.raised
        THEN [bound |-> FALSE, tokens |-> <<>>, tags |-> <<>>, raised_at |-> st.at]
        ELSE [bound |-> TRUE, tokens |-> st.tokens, tags |-> st.tags, raised_at |-> 0]

NoReturn == [bound |-> FALSE, tokens |-> <<>>, tags |-> <<>>, raised_at |-> 0]

ReadInit ==
    /\ file_lines \in SeqsUpTo(FileLines, MaxLines)
    /\ rpc = "call"
    /\ read_ret = NoReturn

\* tokens, tags = read_data(path), completing normally
ReadReturn ==
    /\ rpc = "call"
    /\ read_data(file_lines).bound
    /\ read_ret' = read_data(file_lines)
    /\ rpc' = "returned"
    /\ UNCHANGED <<file_lines, dictVars, vocabVars, genVars, batch_size, trainVars, predictVars, testVars>>

\* the same call, ended by the ValueError of a malformed line
ReadRaise ==
    /\ rpc = "call"
    /\ ~read_data(file_lines).bound
    /\ read_ret' = [NoReturn EXCEPT !.raised_at = read_data(file_lines).raised_at]
    /\ rpc' = "raised"
    /\ UNCHANGED <<file_lines, dictVars, vocabVars, genVars, batch_size, trainVars, predictVars, testVars>>

----------------------------------------------------------------------------
(* build_dict, words2idxs, tags2idxs *)

\* d[key] = value of a dict
Put(d, key, value) == [x \in (DOMAIN d) \cup {key} |-> IF x = key THEN value ELSE d[x]]

EmptyDict == [x \in {} |-> 0]

\* The value defaultdict(lambda: 0) makes up for a missing key
DefaultId == 0

\* tok2idx[tok] = index; idx2tok[index] = tok; index += 1
Assign(d, tok) ==
    [tok2idx |-> Put(d.tok2idx, tok, d.index),
     idx2tok |-> Put(d.idx2tok, d.index, tok),
     index   |-> d.index + 1]

\* A scan that numbers every occurrence, seen before or not
ScanTokAlways(d, tok) == Assign(d, tok)

\* The body of the inner loop: `if not tok in tok2idx: ...`
\* (a membership test does not insert into a defaultdict)
ScanTok(d, tok) ==
    IF tok \notin DOMAIN d.tok2idx THEN Assign(d, tok) ELSE d

RECURSIVE SpecialLoop(_, _)
SpecialLoop(d, specials) ==
    IF specials = <<>> THEN d
    ELSE SpecialLoop(Assign(d, Head(specials)), Tail(specials))

RECURSIVE ScanLoop(_, _)
ScanLoop(d, toks) ==
    IF toks = <<>> THEN d
    ELSE ScanLoop(ScanTok(d, Head(toks)), Tail(toks))

\* build_dict(tokens_or_tags, special_tokens): the two loops; the nested
\* loop over seq and tok visits the symbols of Flatten(tokens_or_tags) in order
build_dict(seqs, specials) ==
    ScanLoop(SpecialLoop([tok2idx |-> EmptyDict, idx2tok |-> EmptyDict, index |-> 0],
                         specials),
             Flatten(seqs))

\* d[key] of a defaultdict(lambda: 0): a missing key is inserted with the
\* default and the default is returned
GetItem(d, key) ==
    IF key \in DOMAIN d
    THEN [dict |-> d, value |-> d[key]]
    ELSE [dict |-> Put(d, key, DefaultId), value |-> DefaultId]

\* [mapping[word] for word in tokens_list] over a defaultdict
RECURSIVE LookupAll(_, _)
LookupAll(d, list) ==
    IF list = <<>> THEN [dict |-> d, ids |-> <<>>]
    ELSE LET g == GetItem(d, Head(list))
             r == LookupAll(g.dict, Tail(list))
         IN  [dict |-> r.dict, ids |-> <<g.value>> \o r.ids]

words2idxs(d, tokens_list) == LookupAll(d, tokens_list)

tags2idxs(d, tags_list) == LookupAll(d, tags_list)

\* The symbols of the model's corpora and reserved lists
Symbols == {"the", "<PAD>"}
Reserved == {"<UNK>", "<PAD>"}

\* The words and tags looked up after the build: in the mapping or not
LookupWords == {"the", "<UNK>", "zzz"}
LookupTags == {"O", "B-PER", "B-LOC"}

DictInit ==
    /\ tokens_or_tags \in SeqsUpTo(SeqsUpTo(Symbols, MaxSeqLen), MaxSeqs)
    /\ special_tokens \in SeqsUpTo(Reserved, MaxSpecial)
    /\ dpc = "call"
    /\ token2idx = EmptyDict
    /\ idx2token = EmptyDict
    /\ lookup_arg = <<>>
    /\ lookup_ret = <<>>

\* token2idx, idx2token = build_dict(..., special_tokens)
BuildDict ==
    /\ dpc = "call"
    /\ token2idx' = build_dict(tokens_or_tags, special_tokens).tok2idx
    /\ idx2token' = build_dict(tokens_or_tags, special_tokens).idx2tok
    /\ dpc' = "built"
    /\ UNCHANGED <<tokens_or_tags, special_tokens, lookup_arg, lookup_ret, tag2idx>>
    /\ UNCHANGED <<readVars, genVars, batch_size, trainVars, predictVars, testVars>>

\* words2idxs(tokens_list) on the built mapping
Lookup ==
    /\ dpc \in {"built", "looked"}
    /\ \E tokens_list \in {<<w>> : w \in LookupWords} :
         /\ lookup_arg' = tokens_list
         /\ lookup_ret' = words2idxs(token2idx, tokens_list).ids
         /\ token2idx' = words2idxs(token2idx, tokens_list).dict
    /\ dpc' = "looked"
    /\ UNCHANGED <<tokens_or_tags, special_tokens, idx2token, tag2idx>>
    /\ UNCHANGED <<readVars, genVars, batch_size, trainVars, predictVars, testVars>>

----------------------------------------------------------------------------
(* The module-level mappings of the notebook *)

TrainTokens == << <<"Ian", "works">>, <<"the", "cat">> >>
TrainTags == << <<"B-PER", "O">>, <<"O", "O">> >>
ValidationTokens == << <<"the", "Ian">>, <<"cat">> >>

\* special_tokens = ['<UNK>', '<PAD>']; special_tags = ['O']
NotebookSpecialTokens == <<"<UNK>", "<PAD>">>
NotebookSpecialTags == <<"O">>

\* token2idx, idx2token = build_dict(train_tokens + validation_tokens, special_tokens)
NotebookToken2idx == build_dict(TrainTokens \o ValidationTokens, NotebookSpecialTokens).tok2idx

\* tag2idx, idx2tag = build_dict(train_tags, special_tags)
NotebookTag2idx == build_dict(TrainTags, NotebookSpecialTags).tok2idx

\* tags2idxs(tags_list) on the notebook's tag mapping
LookupTag ==
    /\ dpc \in {"built", "looked"}
    /\ \E tags_list \in {<<t>> : t \in LookupTags} :
         /\ lookup_arg' = tags_list
         /\ lookup_ret' = tags2idxs(tag2idx, tags_list).ids
         /\ tag2idx' = tags2idxs(tag2idx, tags_list).dict
    /\ dpc' = "looked"
    /\ UNCHANGED <<tokens_or_tags, special_tokens, idx2token, token2idx>>
    /\ UNCHANGED <<readVars, genVars, batch_size, trainVars, predictVars, testVars>>

----------------------------------------------------------------------------
(* batches_generator *)

Min(a, b) == IF a <= b THEN a ELSE b
Max(a, b) == IF a >= b THEN a ELSE b

\* The sentences the model batches: one per length, over seen and unseen symbols
TokenPool == <<"Ian", "works", "zzz">>
TagPool == <<"B-PER", "O", "I-LOC">>
SentTokens(len) == [i \in 1..len |-> TokenPool[((len + i) % 3) + 1]]
SentTags(len) == [i \in 1..len |-> TagPool[((len + i) % 3) + 1]]

\* The lengths of the model's sentences; read_data appends a sentence only
\* `if tweet_tokens`, so no sentence is empty
SentLens == {2, 3, 5}

\* np.arange(n)
Arange(n) == [i \in 1..n |-> i - 1]

\* np.random.permutation(n): any arrangement of 0..n-1
Permutation(n) == {p \in [1..n -> 0..(n - 1)] : \A i, j \in 1..n : i # j => p[i] # p[j]}

\* A count that always adds the last, smaller batch when it is allowed
NBatchesAlwaysExtra(n_samples, bs, allow) ==
    (n_samples \div bs) + (IF allow THEN 1 ELSE 0)

\* n_batches = n_samples // batch_size, plus one for a remainder when allowed
NBatches(n_samples, bs, allow) ==
    (n_samples \div bs) + (IF allow /\ (n_samples % bs) # 0 THEN 1 ELSE 0)

\* x_list / y_list: the lookups of the batch's samples, one after the other,
\* through the same defaultdict
RECURSIVE MapSamples(_, _)
MapSamples(d, lists) ==
    IF lists = <<>> THEN [dict |-> d, rows |-> <<>>]
    ELSE LET g == LookupAll(d, Head(lists))
             r == MapSamples(g.dict, Tail(lists))
         IN  [dict |-> r.dict, rows |-> <<g.ids>> \o r.rows]

\* max_len_token over the batch: max(max_len_token, len(tags[idx]))
RECURSIVE MaxLenToken(_)
MaxLenToken(tag_lists) ==
    IF tag_lists = <<>> THEN 0
    ELSE Max(Len(Head(tag_lists)), MaxLenToken(Tail(tag_lists)))

\* A row that is filled with the default id instead of the padding id
PadRowZero(ids, width, pad) ==
    [j \in 1..width |-> IF j <= Len(ids) THEN ids[j] ELSE 0]

\* Row n of np.ones([..., width]) * pad after x[n, :utt_len] = ids
PadRow(ids, width, pad) ==
    [j \in 1..width |-> IF j <= Len(ids) THEN ids[j] ELSE pad]

\* A slice that always starts at the head of the order
BatchSliceFromHead(ord, batch_start, batch_end) ==
    [n \in 1..(batch_end - batch_start) |-> ord[n]]

\* order[batch_start: batch_end]
BatchSlice(ord, batch_start, batch_end) ==
    [n \in 1..(batch_end - batch_start) |-> ord[batch_start + n]]

\* The body of `for k in range(n_batches)` up to the yield
MakeBatch(tok_d, tag_d, toks, tgs, ord, kk, bs) ==
    LET n_samples == Len(toks)
        batch_start == kk * bs
        batch_end == Min((kk + 1) * bs, n_samples)
        current_batch_size == batch_end - batch_start
        idxs == BatchSlice(ord, batch_start, batch_end)
        xs == MapSamples(tok_d, [n \in 1..current_batch_size |-> toks[idxs[n] + 1]])
        ys == MapSamples(tag_d, [n \in 1..current_batch_size |-> tgs[idxs[n] + 1]])
        max_len_token == MaxLenToken([n \in 1..current_batch_size |-> tgs[idxs[n] + 1]])
        pad == GetItem(xs.dict, "<PAD>")
        out == GetItem(ys.dict, "O")
    IN  [x |-> [n \in 1..current_batch_size |-> PadRow(xs.rows[n], max_len_token, pad.value)],
         y |-> [n \in 1..current_batch_size |-> PadRow(ys.rows[n], max_len_token, out.value)],
         lengths |-> [n \in 1..current_batch_size |-> Len(xs.rows[n])],
         shape |-> <<current_batch_size, max_len_token>>,
         token2idx |-> pad.dict,
         tag2idx |-> out.dict,
         idxs |-> idxs]

NoBatch == [x |-> <<>>, y |-> <<>>, lengths |-> <<>>, shape |-> <<0, 0>>]

BatchInit ==
    /\ \E lens \in SeqsUpTo(SentLens, MaxSamples) :
         /\ tokens = [i \in DOMAIN lens |-> SentTokens(lens[i])]
         /\ tags = [i \in DOMAIN lens |-> SentTags(lens[i])]
    /\ batch_size \in 1..MaxBatchSize
    /\ shuffle \in BOOLEAN
    /\ allow_smaller_last_batch \in BOOLEAN
    /\ gpc = "call"
    /\ order = <<>>
    /\ n_batches = 0
    /\ k = 0
    /\ batch = NoBatch
    /\ n_yielded = 0
    /\ served = <<>>

\* The statements before the loop run at the first next() of the generator
OrdersAtNext ==
    IF gpc = "call"
    THEN IF shuffle THEN Permutation(Len(tokens)) ELSE {Arange(Len(tokens))}
    ELSE {order}

NBatchesAtNext ==
    IF gpc = "call" THEN NBatches(Len(tokens), batch_size, allow_smaller_last_batch)
    ELSE n_batches

\* next() of the generator that runs to the yield
GenYield ==
    /\ gpc \in {"call", "running"}
    /\ k < NBatchesAtNext
    /\ \E ord \in OrdersAtNext :
         LET made == MakeBatch(token2idx, tag2idx, tokens, tags, ord, k, batch_size)
         IN  /\ order' = ord
             /\ batch' = [x |-> made.x, y |-> made.y, lengths |-> made.lengths,
                          shape |-> made.shape]
             /\ token2idx' = made.token2idx
             /\ tag2idx' = made.tag2idx
             /\ served' = Append(served, made.idxs)
    /\ n_batches' = NBatchesAtNext
    /\ k' = k + 1
    /\ n_yielded' = n_yielded + 1
    /\ gpc' = "running"
    /\ UNCHANGED <<tokens, tags, batch_size, shuffle, allow_smaller_last_batch>>
    /\ UNCHANGED <<readVars, dictVars, trainVars, predictVars, testVars>>

\* next() of the generator that leaves the loop: StopIteration
GenStop ==
    /\ gpc \in {"call", "running"}
    /\ k >= NBatchesAtNext
    /\ \E ord \in OrdersAtNext : order' = ord
    /\ n_batches' = NBatchesAtNext
    /\ gpc' = "done"
    /\ UNCHANGED <<tokens, tags, batch_size, shuffle, allow_smaller_last_batch,
                   k, batch, n_yielded, served, token2idx, tag2idx>>
    /\ UNCHANGED <<readVars, dictVars, trainVars, predictVars, testVars>>

----------------------------------------------------------------------------
(* train_one_epoch, test_model, train_model *)

ValidationTags == << <<"O", "B-PER">>, <<"O">> >>

\* `if batch_id % 100 == 99`
ReportEvery == 100

\* batches_generator(batch_size, train_tokens, train_tags): shuffled, the
\* smaller last batch allowed
TrainBatches == NBatches(Len(TrainTokens), batch_size, TRUE)

\* batches_generator(batch_size, tokens, tags) inside test_model
EvalBatches == NBatches(Len(ValidationTokens), batch_size, TRUE)

\* rows of validation batch b (0-based): batch_end - batch_start
EvalBatchRows(b) ==
    Min((b + 1) * batch_size, Len(ValidationTokens)) - b * batch_size

\* A loop that starts at the second epoch
EpochRangeFromOne(n) == 1..(n - 1)

\* range(0, n_epochs)
EpochRange(n) == 0..(n - 1)

\* A comparison that also takes an equal accuracy for an improvement
IsBetterOrEqual(a, best) == a >= best

\* `if acc > best_acc`
IsBetter(a, best) == a > best

\* torch.save(model, os.path.join(path_to_model, "ner_best.pth")): the one
\* file is written over
Save(files, p) == {p}

\* accuracy = 100. * correct / (n_samples)
Accuracy(c, n_samples) == (100 * c) \div n_samples

Event(kind, e, a, p, files, nb) ==
    [kind |-> kind, epoch |-> e, acc |-> a, params |-> p, files |-> files, batches |-> nb]

TrainInit ==
    /\ n_epochs \in 0..MaxEpochs
    /\ batch_size \in 1..MaxBatchSize
    /\ tpc = "init"
    /\ epoch = 0
    /\ batch_id = 0
    /\ params = 0
    /\ best_acc = 0
    /\ correct = 0
    /\ acc = 0
    /\ snapshot = {}
    /\ writer = "open"
    /\ log = <<>>

\* train_model up to the first iteration of its loop: best_acc = 0.
TrainModelStart ==
    /\ tpc = "init"
    /\ best_acc' = 0
    /\ IF EpochRange(n_epochs) = {}
       THEN /\ tpc' = "done"
            /\ epoch' = epoch
       ELSE /\ tpc' = "train"
            /\ epoch' = CHOOSE e \in EpochRange(n_epochs) :
                            \A f \in EpochRange(n_epochs) : e <= f
    /\ batch_id' = 0
    /\ UNCHANGED <<n_epochs, batch_size, params, correct, acc, snapshot, writer, log>>
    /\ UNCHANGED <<readVars, dictVars, vocabVars, genVars, predictVars, testVars>>

\* One iteration of train_one_epoch's loop: forward, loss, backward,
\* optimizer.step(), and the report of every hundredth batch
\* (writer.add_scalar, an AttributeError when writer is None)
TrainBatch ==
    /\ tpc = "train"
    /\ batch_id < TrainBatches
    /\ params' = params + 1
    /\ batch_id' = batch_id + 1
    /\ writer' = IF batch_id % ReportEvery = ReportEvery - 1 /\ writer # "none"
                 THEN "open" ELSE writer
    /\ tpc' = IF batch_id % ReportEvery = ReportEvery - 1 /\ writer = "none"
              THEN "raised" ELSE tpc
    /\ UNCHANGED <<n_epochs, batch_size, epoch, best_acc, correct, acc, snapshot, log>>
    /\ UNCHANGED <<readVars, dictVars, vocabVars, genVars, predictVars, testVars>>

\* The end of train_one_epoch: writer.add_scalar('Train/Loss', ...), flush;
\* train_model goes on to test_model, which resets its counters
TrainEpochEnd ==
    /\ tpc = "train"
    /\ batch_id = TrainBatches
    /\ writer # "none"
    /\ writer' = "open"
    /\ log' = Append(log, Event("train", epoch, 0, params, snapshot, batch_id))
    /\ tpc' = "eval"
    /\ batch_id' = 0
    /\ correct' = 0
    /\ UNCHANGED <<n_epochs, batch_size, epoch, params, best_acc, acc, snapshot>>
    /\ UNCHANGED <<readVars, dictVars, vocabVars, genVars, predictVars, testVars>>

\* The end of train_one_epoch with writer = None: writer.add_scalar raises
\* AttributeError, which ends train_one_epoch and train_model
TrainEpochRaise ==
    /\ tpc = "train"
    /\ batch_id = TrainBatches
    /\ writer = "none"
    /\ tpc' = "raised"
    /\ UNCHANGED <<n_epochs, batch_size, epoch, batch_id, params, best_acc, correct, acc,
                   snapshot, writer, log>>
    /\ UNCHANGED <<readVars, dictVars, vocabVars, genVars, predictVars, testVars>>

\* One iteration of test_model's loop: a forward pass without gradients;
\* the tagger's output decides how many positions match
EvalBatch ==
    /\ tpc = "eval"
    /\ batch_id < EvalBatches
    /\ \E c \in 0..EvalBatchRows(batch_id) : correct' = correct + c
    /\ batch_id' = batch_id + 1
    /\ UNCHANGED <<n_epochs, batch_size, tpc, epoch, params, best_acc, acc, snapshot,
                   writer, log>>
    /\ UNCHANGED <<readVars, dictVars, vocabVars, genVars, predictVars, testVars>>

\* The end of test_model (accuracy, the scalars `if writer:`, return) and the
\* rest of train_model's loop body: the comparison, torch.save, and
\* writer.close(), an AttributeError when writer is None
EvalEnd ==
    /\ tpc = "eval"
    /\ batch_id = EvalBatches
    /\ LET accuracy == Accuracy(correct, Len(ValidationTokens))
           better == IsBetter(accuracy, best_acc)
           files == IF better THEN Save(snapshot, params) ELSE snapshot
           rest == {e \in EpochRange(n_epochs) : e > epoch}
       IN  /\ acc' = accuracy
           /\ best_acc' = IF better THEN accuracy ELSE best_acc
           /\ snapshot' = files
           /\ log' = Append(log, Event("eval", epoch, accuracy, params, files, batch_id))
           /\ IF writer = "none"
              THEN /\ tpc' = "raised"
                   /\ epoch' = epoch
              ELSE IF rest = {}
              THEN /\ tpc' = "done"
                   /\ epoch' = epoch
              ELSE /\ tpc' = "train"
                   /\ epoch' = CHOOSE e \in rest : \A f \in rest : e <= f
    /\ writer' = IF writer = "none" THEN writer ELSE "closed"
    /\ batch_id' = 0
    /\ UNCHANGED <<n_epochs, batch_size, params, correct>>
    /\ UNCHANGED <<readVars, dictVars, vocabVars, genVars, predictVars, testVars>>

----------------------------------------------------------------------------
(* NERTagger.forward and predict_sentence *)

\* idx2tag of `tag2idx, idx2tag = build_dict(train_tags, special_tags)`
NotebookIdx2tag == build_dict(TrainTags, NotebookSpecialTags).idx2tok

\* n_tags = len(tag2idx) when the tagger is made
NTags == Cardinality(DOMAIN NotebookTag2idx)

\* vocab_size = len(token2idx) when the tagger is made: the rows of its
\* embedding table
VocabSize == Cardinality(DOMAIN NotebookToken2idx)

\* The trained taggers of the model
Taggers == {"outside", "echo", "shift"}

\* The argmax over the tag scores at position j of a row of ids: the
\* embedding and the LSTM run left to right over the row, so the scores at j
\* are a fixed function of the parameters and of the ids up to j
Predict(net, ids, j) ==
    CASE net = "outside" -> 0
      [] net = "echo" -> ids[j] % NTags
      [] net = "shift" -> (ids[1] + j) % NTags

\* Tensor.squeeze(): the dimensions of size one are dropped
Squeeze(shape) == SelectSeq(shape, LAMBDA d : d # 1)

\* idxs2tags(idxs)
idxs2tags(idxs) == [j \in DOMAIN idxs |-> NotebookIdx2tag[idxs[j]]]

\* y_pred.eq(y_true).sum() of two vectors: elementwise when the sizes agree,
\* broadcast when one of them has size one, an error otherwise
EqSum(a, b) ==
    IF Len(a) = Len(b)
    THEN [ok |-> TRUE, sum |-> Cardinality({j \in DOMAIN a : a[j] = b[j]})]
    ELSE IF Len(b) = 1
    THEN [ok |-> TRUE, sum |-> Cardinality({j \in DOMAIN a : a[j] = b[1]})]
    ELSE IF Len(a) = 1
    THEN [ok |-> TRUE, sum |-> Cardinality({j \in DOMAIN b : b[j] = a[1]})]
    ELSE [ok |-> FALSE, sum |-> 0]

\* `tags2idxs(true_tags)`: the name true_tags is not a parameter of
\* predict_sentence, it is looked up in the module
GroundTruth(passed, ambient) == ambient

\* predict_sentence(sentence, tags, verbosity)
predict_sentence(tok_d, tag_d, net, sent, passed, verbose, ambient) ==
    LET xs == words2idxs(tok_d, sent)
        shape == Squeeze(<<1, Len(sent), NTags>>)
        y_pred == [j \in 1..Len(sent) |-> Predict(net, xs.ids, j)]
        res == idxs2tags(y_pred)
        truth == GroundTruth(passed, ambient)
        ys == tags2idxs(tag_d, truth.value)
        cmp == EqSum(y_pred, ys.ids)
        failed == [raised |-> TRUE, res |-> <<>>, correct |-> -1,
                   token2idx |-> xs.dict, tag2idx |-> tag_d]
    IN  IF \E j \in 1..Len(sent) : xs.ids[j] >= VocabSize
        THEN failed                                  \* nn.Embedding: IndexError
        ELSE IF Len(shape) < 2
        THEN failed                                  \* .max(1): IndexError
        ELSE IF passed = <<>>
        THEN [raised |-> FALSE, res |-> res, correct |-> -1,
              token2idx |-> xs.dict, tag2idx |-> tag_d]
        ELSE IF ~truth.bound
        THEN failed                                  \* NameError
        ELSE IF ~cmp.ok
        THEN [failed EXCEPT !.tag2idx = ys.dict]     \* RuntimeError: sizes
        ELSE [raised |-> FALSE, res |-> res,
              correct |-> IF verbose THEN cmp.sum ELSE -1,
              token2idx |-> xs.dict, tag2idx |-> ys.dict]

Unbound == [bound |-> FALSE, value |-> <<>>]

\* The words and tags of the sentences given to predict_sentence
PredictWords == {"Ian", "zzz"}
PredictTags == {"O", "B-PER"}
PredictSentences == SeqsUpTo(PredictWords, MaxPredictLen) \ {<<>>}
PredictTagLists == SeqsUpTo(PredictTags, MaxPredictLen) \ {<<>>}

PredictInit ==
    /\ tagger \in Taggers
    /\ sentence \in PredictSentences
    /\ tags_arg \in {<<>>} \cup {t \in PredictTagLists : Len(t) = Len(sentence)}
    /\ verbosity \in BOOLEAN
    /\ true_tags \in {Unbound} \cup
           {[bound |-> TRUE, value |-> t] : t \in PredictTagLists}
    /\ ppc = "call"
    /\ pred_ret = <<>>
    /\ pred_correct = -1

PredictIdle ==
    /\ tagger = "outside"
    /\ sentence = <<>>
    /\ tags_arg = <<>>
    /\ verbosity = FALSE
    /\ true_tags = Unbound
    /\ ppc = "idle"
    /\ pred_ret = <<>>
    /\ pred_correct = -1

\* A call of predict_sentence that returns
PredictReturn ==
    /\ ppc = "call"
    /\ LET r == predict_sentence(token2idx, tag2idx, tagger, sentence, tags_arg,
                                 verbosity, true_tags)
       IN  /\ ~r.raised
           /\ pred_ret' = r.res
           /\ pred_correct' = r.correct
           /\ token2idx' = r.token2idx
           /\ tag2idx' = r.tag2idx
    /\ ppc' = "returned"
    /\ UNCHANGED <<tagger, sentence, tags_arg, verbosity, true_tags>>
    /\ UNCHANGED <<readVars, dictVars, genVars, batch_size, trainVars, testVars>>

\* A call of predict_sentence that ends in an exception
PredictRaise ==
    /\ ppc = "call"
    /\ LET r == predict_sentence(token2idx, tag2idx, tagger, sentence, tags_arg,
                                 verbosity, true_tags)
       IN  /\ r.raised
           /\ token2idx' = r.token2idx
           /\ tag2idx' = r.tag2idx
    /\ ppc' = "raised"
    /\ UNCHANGED <<tagger, sentence, tags_arg, verbosity, true_tags, pred_ret, pred_correct>>
    /\ UNCHANGED <<readVars, dictVars, genVars, batch_size, trainVars, testVars>>

----------------------------------------------------------------------------
(* test_model on the test set, batch by batch *)

\* test_tokens, test_tags: a test set of known words, its sentences of
\* different lengths
TestTokens == << <<"Ian">>, <<"the", "cat">>, <<"cat">> >>
TestTags == << <<"B-PER">>, <<"O", "O">>, <<"O">> >>

\* Exact fractions for the floating-point sums
Frac(num, den) == [num |-> num, den |-> den]
FracAdd(a, b) == Frac(a.num * b.den + b.num * a.den, a.den * b.den)
FracEq(a, b) == a.num * b.den = b.num * a.den

\* The positions of a batch: every row, every column, padding included
Positions(shape) == (1..shape[1]) \X (1..shape[2])

\* y_pred.eq(y_batch.data).sum(): the positions of the whole padded matrix
\* where the best tag is the target
BatchCorrect(net, b) ==
    Cardinality({p \in Positions(b.shape) :
                    Predict(net, b.x[p[1]], p[2]) = b.y[p[1]][p[2]]})

\* The negative log-likelihood of the target at one position, in whole
\* units: the best tag has the greatest likelihood
PositionLoss(net, row, j, target) ==
    IF Predict(net, row, j) = target THEN 1 ELSE 3

RECURSIVE SumOver(_, _, _)
SumOver(net, b, ps) ==
    IF ps = {} THEN 0
    ELSE LET p == CHOOSE q \in ps : TRUE
         IN  PositionLoss(net, b.x[p[1]], p[2], b.y[p[1]][p[2]])
                 + SumOver(net, b, ps \ {p})

\* criterion(outputs, y_batch): nn.NLLLoss(), the mean over every position
\* of the padded matrix
Criterion(net, b) ==
    Frac(SumOver(net, b, Positions(b.shape)), b.shape[1] * b.shape[2])

\* the orders batches_generator(batch_size, tokens, tags) can draw: shuffle
\* is left at its default
TestOrders == Permutation(Len(TestTokens))

TestBatches == NBatches(Len(TestTokens), batch_size, TRUE)

Zero == Frac(0, 1)

TestIdle ==
    /\ test_pc = "idle"
    /\ test_order = <<>>
    /\ test_k = 0
    /\ test_loss = Zero
    /\ test_correct = Zero
    /\ test_n = 0
    /\ test_n_samples = 0
    /\ test_returns = <<>>

\* i, loss, correct, n = [0, 0, 0, 0]; n_samples = 0
TestInit ==
    /\ test_pc = "call"
    /\ test_order = <<>>
    /\ test_k = 0
    /\ test_loss = Zero
    /\ test_correct = Zero
    /\ test_n = 0
    /\ test_n_samples = 0
    /\ test_returns = <<>>

\* One turn of test_model's loop: the generator's next batch (its order
\* drawn at the first), the forward pass, the sums
TestModelBatch ==
    /\ test_pc \in {"call", "running"}
    /\ test_k < TestBatches
    /\ \E ord \in (IF test_pc = "call" THEN TestOrders ELSE {test_order}) :
         LET b == MakeBatch(token2idx, tag2idx, TestTokens, TestTags, ord, test_k,
                            batch_size)
         IN  /\ test_order' = ord
             /\ token2idx' = b.token2idx
             /\ tag2idx' = b.tag2idx
             /\ test_loss' = FracAdd(test_loss, Criterion(tagger, b))
             /\ test_correct' =
                    FracAdd(test_correct, Frac(BatchCorrect(tagger, b), b.shape[2]))
             /\ test_n_samples' = test_n_samples + b.shape[1]
    /\ test_n' = test_n + 1
    /\ test_k' = test_k + 1
    /\ test_pc' = "running"
    /\ UNCHANGED test_returns
    /\ UNCHANGED <<readVars, dictVars, genVars, batch_size, trainVars, predictVars>>

\* After the loop: loss /= n, accuracy = 100. * correct / n_samples, return
TestModelReturn ==
    /\ test_pc = "running"
    /\ test_k = TestBatches
    /\ test_returns' = Append(test_returns,
           [accuracy |-> Frac(100 * test_correct.num, test_correct.den * test_n_samples),
            loss |-> Frac(test_loss.num, test_loss.den * test_n)])
    /\ test_pc' = "returned"
    /\ UNCHANGED <<test_order, test_k, test_loss, test_correct, test_n, test_n_samples>>
    /\ UNCHANGED <<readVars, dictVars, vocabVars, genVars, batch_size, trainVars,
                   predictVars>>

\* The cell that calls test_model is run once more: same tagger, same test set
TestModelAgain ==
    /\ test_pc = "returned"
    /\ Len(test_returns) < 2
    /\ test_pc' = "call"
    /\ test_order' = <<>>
    /\ test_k' = 0
    /\ test_loss' = Zero
    /\ test_correct' = Zero
    /\ test_n' = 0
    /\ test_n_samples' = 0
    /\ UNCHANGED test_returns
    /\ UNCHANGED <<readVars, dictVars, vocabVars, genVars, batch_size, trainVars,
                   predictVars>>

----------------------------------------------------------------------------
(* Specifications: one per part of the notebook; the parts a specification *)
(* does not run stay as they are.                                           *)

ReadIdle ==
    /\ file_lines = <<>>
    /\ rpc = "idle"
    /\ read_ret = NoReturn

DictIdle ==
    /\ tokens_or_tags = <<>>
    /\ special_tokens = <<>>
    /\ dpc = "idle"
    /\ idx2token = EmptyDict
    /\ lookup_arg = <<>>
    /\ lookup_ret = <<>>

GenIdle ==
    /\ tokens = <<>>
    /\ tags = <<>>
    /\ shuffle = FALSE
    /\ allow_smaller_last_batch = TRUE
    /\ gpc = "idle"
    /\ order = <<>>
    /\ n_batches = 0
    /\ k = 0
    /\ batch = NoBatch
    /\ n_yielded = 0
    /\ served = <<>>

TrainIdle ==
    /\ n_epochs = 0
    /\ tpc = "idle"
    /\ epoch = 0
    /\ batch_id = 0
    /\ params = 0
    /\ best_acc = 0
    /\ correct = 0
    /\ acc = 0
    /\ snapshot = {}
    /\ writer = "open"
    /\ log = <<>>

\* batch_size = 32 in the notebook
NotebookBatchSize == 32

InitRead ==
    /\ ReadInit
    /\ DictIdle /\ GenIdle /\ TrainIdle /\ PredictIdle /\ TestIdle
    /\ batch_size = NotebookBatchSize
    /\ token2idx = EmptyDict /\ tag2idx = EmptyDict

NextRead == ReadReturn \/ ReadRaise

SpecRead == InitRead /\ [][NextRead]_vars

InitDict ==
    /\ DictInit
    /\ tag2idx = NotebookTag2idx
    /\ ReadIdle /\ GenIdle /\ TrainIdle /\ PredictIdle /\ TestIdle
    /\ batch_size = NotebookBatchSize

NextDict == BuildDict \/ Lookup \/ LookupTag

SpecDict == InitDict /\ [][NextDict]_vars

InitBatch ==
    /\ BatchInit
    /\ token2idx = NotebookToken2idx
    /\ tag2idx = NotebookTag2idx
    /\ ReadIdle /\ DictIdle /\ TrainIdle /\ PredictIdle /\ TestIdle

NextBatch == GenYield \/ GenStop

SpecBatch == InitBatch /\ [][NextBatch]_vars

InitTrain ==
    /\ TrainInit
    /\ token2idx = NotebookToken2idx
    /\ tag2idx = NotebookTag2idx
    /\ ReadIdle /\ DictIdle /\ GenIdle /\ PredictIdle /\ TestIdle

NextTrain == TrainModelStart \/ TrainBatch \/ TrainEpochEnd \/ EvalBatch \/ EvalEnd

\* The notebook is one thread: a step that can be taken is taken
SpecTrain == InitTrain /\ [][NextTrain]_vars /\ WF_vars(NextTrain)

\* train_model called with or without a telemetry sink
InitTrainAnyWriter ==
    /\ n_epochs \in 0..MaxEpochs
    /\ batch_size \in 1..MaxBatchSize
    /\ tpc = "init"
    /\ epoch = 0
    /\ batch_id = 0
    /\ params = 0
    /\ best_acc = 0
    /\ correct = 0
    /\ acc = 0
    /\ snapshot = {}
    /\ writer \in {"open", "none"}
    /\ log = <<>>
    /\ token2idx = NotebookToken2idx
    /\ tag2idx = NotebookTag2idx
    /\ ReadIdle /\ DictIdle /\ GenIdle /\ PredictIdle /\ TestIdle

NextTrainAnyWriter ==
    TrainModelStart \/ TrainBatch \/ TrainEpochEnd \/ TrainEpochRaise \/ EvalBatch \/ EvalEnd

SpecTrainAnyWriter ==
    InitTrainAnyWriter /\ [][NextTrainAnyWriter]_vars /\ WF_vars(NextTrainAnyWriter)

InitPredict ==
    /\ PredictInit
    /\ token2idx = NotebookToken2idx
    /\ tag2idx = NotebookTag2idx
    /\ batch_size = NotebookBatchSize
    /\ ReadIdle /\ DictIdle /\ GenIdle /\ TrainIdle /\ TestIdle

NextPredict == PredictReturn \/ PredictRaise

SpecPredict == InitPredict /\ [][NextPredict]_vars

InitTest ==
    /\ TestInit
    /\ tagger \in Taggers
    /\ batch_size \in 1..MaxBatchSize
    /\ token2idx = NotebookToken2idx
    /\ tag2idx = NotebookTag2idx
    /\ sentence = <<>> /\ tags_arg = <<>> /\ verbosity = FALSE /\ true_tags = Unbound
    /\ ppc = "idle" /\ pred_ret = <<>> /\ pred_correct = -1
    /\ ReadIdle /\ DictIdle /\ GenIdle /\ TrainIdle

NextTest == TestModelBatch \/ TestModelReturn \/ TestModelAgain

SpecTest == InitTest /\ [][NextTest]_vars

----------------------------------------------------------------------------
(* Properties of read_data, checked under SpecRead *)

WellFormed(line) == Len(line) = 2
Blank(line) == line = <<>>
Malformed(line) == ~Blank(line) /\ ~WellFormed(line)

\* The sequences a file holds: its well-formed lines cut at the blank lines,
\* the last one included whether or not a blank line follows it
RECURSIVE SplitAtBlank(_, _, _)
SplitAtBlank(lines, cur, field) ==
    IF lines = <<>>
    THEN IF cur # <<>> THEN <<cur>> ELSE <<>>
    ELSE IF Blank(Head(lines))
    THEN (IF cur # <<>> THEN <<cur>> ELSE <<>>) \o SplitAtBlank(Tail(lines), <<>>, field)
    ELSE SplitAtBlank(Tail(lines),
                      Append(cur, IF field = 1 THEN Normalize(Head(lines)[1])
                                  ELSE Head(lines)[2]),
                      field)

FirstMalformed ==
    CHOOSE i \in 1..Len(file_lines) :
        /\ Malformed(file_lines[i])
        /\ \A j \in 1..(i - 1) : ~Malformed(file_lines[j])

\* C9: read_data cuts the lines into sequences at the blank lines and also
\* emits a last sequence that no blank line follows, so every (token, tag)
\* line is in exactly one emitted sequence, in input order.
C9_EveryLineEmitted ==
    rpc = "returned" =>
        /\ read_ret.tokens = SplitAtBlank(file_lines, <<>>, 1)
        /\ read_ret.tags = SplitAtBlank(file_lines, <<>>, 2)

\* C10: a non-blank line that does not have exactly two fields makes the
\* read fail at that line: nothing is returned, and neither that line nor a
\* later one contributes to a result. A file without such a line is returned.
C10_MalformedLineAborts ==
    rpc # "call" =>
        /\ (rpc = "raised") <=> (\E i \in 1..Len(file_lines) : Malformed(file_lines[i]))
        /\ rpc = "raised" =>
              /\ ~read_ret.bound
              /\ read_ret.tokens = <<>>
              /\ read_ret.tags = <<>>
              /\ read_ret.raised_at = FirstMalformed
        /\ rpc = "returned" => read_ret.bound

\* A file whose second line is malformed, with well-formed lines around it
C10_Witness ==
    /\ rpc = "raised"
    /\ Len(file_lines) = 3
    /\ WellFormed(file_lines[1])
    /\ Len(file_lines[2]) = 3
    /\ WellFormed(file_lines[3])
    /\ read_ret.raised_at = 2
    /\ ~read_ret.bound

----------------------------------------------------------------------------
(* Properties of build_dict and the lookups, checked under SpecDict *)

\* The symbols of a list in order of first occurrence, those of seen left out
RECURSIVE FirstOccurrences(_, _)
FirstOccurrences(list, seen) ==
    IF list = <<>> THEN <<>>
    ELSE IF Head(list) \in seen THEN FirstOccurrences(Tail(list), seen)
    ELSE <<Head(list)>> \o FirstOccurrences(Tail(list), seen \cup {Head(list)})

SeenSymbols == Range(special_tokens) \cup Range(Flatten(tokens_or_tags))

\* C5: build_dict gives the ids 0..len(reserved)-1 to the reserved symbols in
\* the given order, then the next ids, increasing by one with no gap, to the
\* other symbols in order of first occurrence; a symbol met again keeps its id.
C5_IdsInFirstOccurrenceOrder ==
    dpc = "built" =>
        LET n == Len(special_tokens)
            news == FirstOccurrences(Flatten(tokens_or_tags), Range(special_tokens))
        IN  /\ \A i \in 1..n : idx2token[i - 1] = special_tokens[i]
            /\ \A i \in 1..n :
                   (\A j \in (i + 1)..n : special_tokens[j] # special_tokens[i])
                       => token2idx[special_tokens[i]] = i - 1
            /\ \A j \in 1..Len(news) :
                   /\ token2idx[news[j]] = n + j - 1
                   /\ idx2token[n + j - 1] = news[j]
            /\ DOMAIN idx2token = 0..(n + Len(news) - 1)
            /\ DOMAIN token2idx = SeenSymbols

\* reserved ['<UNK>', '<PAD>'] over a corpus that holds one ordinary symbol, twice
C5_Witness ==
    /\ dpc = "built"
    /\ special_tokens = <<"<UNK>", "<PAD>">>
    /\ tokens_or_tags = << <<"the", "the">> >>
    /\ token2idx = [s \in {"<UNK>", "<PAD>", "the"} |->
                        IF s = "<UNK>" THEN 0 ELSE IF s = "<PAD>" THEN 1 ELSE 2]

\* C6: the two mappings build_dict returns are inverses of each other, and
\* the ids are exactly 0..N-1 for the N distinct symbols seen.
C6_MappingsAreInverses ==
    dpc = "built" =>
        /\ \A sym \in SeenSymbols : idx2token[token2idx[sym]] = sym
        /\ \A i \in DOMAIN idx2token : token2idx[idx2token[i]] = i
        /\ DOMAIN idx2token = 0..(Cardinality(SeenSymbols) - 1)

BuiltToken2idx == build_dict(tokens_or_tags, special_tokens).tok2idx

\* C7: looking up a token that is not in the mapping returns the id that
\* was reserved for '<UNK>', wherever '<UNK>' stands in the reserved list.
C7_UnknownTokenGetsUnkId ==
    (/\ dpc = "looked"
     /\ lookup_arg[1] \in LookupWords
     /\ lookup_arg[1] \notin DOMAIN BuiltToken2idx
     /\ "<UNK>" \in Range(special_tokens))
        => lookup_ret = <<BuiltToken2idx["<UNK>"]>>

\* C8: once built, the mappings keep their symbols: no lookup, of a seen or
\* of an unseen symbol, adds an entry.
C8_VocabularyImmutable ==
    dpc \in {"built", "looked"} =>
        /\ DOMAIN token2idx = DOMAIN BuiltToken2idx
        /\ DOMAIN tag2idx = DOMAIN NotebookTag2idx

----------------------------------------------------------------------------
(* Properties of batches_generator, checked under SpecBatch *)

\* The least m with m * d >= n, and the greatest m with m * d <= n
CeilDiv(n, d) == CHOOSE m \in 0..n : m * d >= n /\ \A m2 \in 0..n : m2 * d >= n => m <= m2
FloorDiv(n, d) == CHOOSE m \in 0..n : m * d <= n /\ \A m2 \in 0..n : m2 * d <= n => m2 <= m

SetMax(S) == CHOOSE m \in S : \A x \in S : x <= m

\* The sample behind row n of the batch yielded last (k counts the batches
\* made so far)
RowSample(n) == order[(k - 1) * batch_size + n] + 1

\* C1: in every batch yielded, the width is the greatest true length among
\* the batch's sequences; row i holds the mapped tokens and tags of its
\* sequence in its first lengths[i] columns, and the pad id (in x) and the
\* id of 'O' (in y) in every column from lengths[i] on.
C1_BatchPaddedToItsLongest ==
    gpc = "running" =>
        LET rows == batch.shape[1]
            width == batch.shape[2]
        IN  /\ rows >= 1
            /\ Len(batch.x) = rows /\ Len(batch.y) = rows /\ Len(batch.lengths) = rows
            /\ width = SetMax({Len(tokens[RowSample(n)]) : n \in 1..rows})
            /\ \A n \in 1..rows :
                 LET toks == tokens[RowSample(n)]
                     tgs == tags[RowSample(n)]
                 IN  /\ batch.lengths[n] = Len(toks)
                     /\ Len(batch.x[n]) = width
                     /\ Len(batch.y[n]) = width
                     /\ \A j \in 1..width :
                          IF j <= Len(toks)
                          THEN /\ batch.x[n][j] = token2idx[toks[j]]
                               /\ batch.y[n][j] = tag2idx[tgs[j]]
                          ELSE /\ batch.x[n][j] = token2idx["<PAD>"]
                               /\ batch.y[n][j] = tag2idx["O"]

\* Three sequences of lengths 2, 5 and 3 with batch_size = 3: one batch of
\* width 5 with the length vector [2, 5, 3]
C1_Witness ==
    /\ gpc = "running"
    /\ batch_size = 3
    /\ Len(tokens) = 3
    /\ batch.lengths = <<2, 5, 3>>
    /\ batch.shape = <<3, 5>>
    /\ batch.x[1] = <<token2idx[tokens[RowSample(1)][1]], token2idx[tokens[RowSample(1)][2]],
                      1, 1, 1>>

ExpectedBatches ==
    IF allow_smaller_last_batch THEN CeilDiv(Len(tokens), batch_size)
    ELSE FloorDiv(Len(tokens), batch_size)

C2_Count ==
    /\ n_yielded <= ExpectedBatches
    /\ gpc = "done" => n_yielded = ExpectedBatches

\* A next() before the count is reached yields one more batch; a next() once
\* it is reached ends the iteration; after the end nothing is yielded
C2_Step ==
    /\ (gpc # "done" /\ n_yielded < ExpectedBatches)
          => (n_yielded' = n_yielded + 1 /\ gpc' = "running")
    /\ (gpc # "done" /\ n_yielded = ExpectedBatches)
          => (n_yielded' = n_yielded /\ gpc' = "done")
    /\ gpc = "done" => (n_yielded' = n_yielded /\ gpc' = "done")

\* C2: one iteration of batches_generator yields ceil(N / batch_size)
\* batches when the smaller last batch is allowed and floor(N / batch_size)
\* when it is not, and then ends.
C2_BatchCount == []C2_Count /\ [][C2_Step]_vars

\* Three sequences, batch_size 2, no smaller last batch: one batch, then the end
C2_Witness ==
    /\ gpc = "done"
    /\ Len(tokens) = 3
    /\ batch_size = 2
    /\ ~allow_smaller_last_batch
    /\ n_yielded = 1

----------------------------------------------------------------------------
(* Properties of train_model, checked under SpecTrain *)

IsEval(e) == e.kind = "eval"
Evals == SelectSeq(log, IsEval)

TrainOrder ==
    /\ \A i \in 1..Len(log) :
         /\ log[i].kind = (IF i % 2 = 1 THEN "train" ELSE "eval")
         /\ log[i].epoch = (i - 1) \div 2
         /\ log[i].kind = "train" => log[i].batches = CeilDiv(Len(TrainTokens), batch_size)
         /\ log[i].kind = "eval" =>
               /\ log[i].batches = CeilDiv(Len(ValidationTokens), batch_size)
               /\ log[i].params = log[i - 1].params
    /\ \A i \in 1..(Len(log) - 1) : log[i].params <= log[i + 1].params
    /\ tpc = "init" => log = <<>>
    /\ tpc = "train" => Len(log) = 2 * epoch /\ epoch < n_epochs
    /\ tpc = "eval" => Len(log) = 2 * epoch + 1 /\ epoch < n_epochs
    /\ tpc = "done" => Len(log) = 2 * n_epochs

\* C3: train_model runs Init -> {TrainEpoch -> Evaluate} x n_epochs -> Done:
\* the epochs 0..n_epochs-1 in order, each full training pass before that
\* epoch's evaluation, each evaluation before the next pass, n_epochs of
\* each, and Done in the end.
C3_EpochStateMachine == []TrainOrder /\ <>(tpc = "done")

C3_Witness ==
    /\ tpc = "done"
    /\ n_epochs = 2
    /\ Len(log) = 4
    /\ params = 2 * TrainBatches

\* The best accuracy before evaluation i; train_model starts from 0.
BestBefore(i) == SetMax({0} \cup {Evals[j].acc : j \in 1..(i - 1)})

FilesBefore(i) == IF i = 1 THEN {} ELSE Evals[i - 1].files

\* C4: after an epoch the parameters are saved if and only if its validation
\* accuracy exceeds the best seen so far (0 before the first epoch); a save
\* writes over the one snapshot, so there is never more than one, and once
\* written it holds the parameters of the earliest epoch that reached the
\* highest validation accuracy so far.
C4_SnapshotIsBest ==
    /\ Cardinality(snapshot) <= 1
    /\ snapshot = FilesBefore(Len(Evals) + 1)
    /\ \A i \in 1..Len(Evals) :
         IF Evals[i].acc > BestBefore(i)
         THEN Evals[i].files = {Evals[i].params}
         ELSE Evals[i].files = FilesBefore(i) /\ Evals[i].params \notin Evals[i].files
    /\ snapshot # {} =>
         \E i \in 1..Len(Evals) :
             /\ snapshot = {Evals[i].params}
             /\ \A j \in 1..Len(Evals) : Evals[j].acc <= Evals[i].acc
             /\ \A j \in 1..(i - 1) : Evals[j].acc < Evals[i].acc
    /\ best_acc = BestBefore(Len(Evals) + 1)

\* Three epochs: the second improves on the first, the third ties with the
\* second, and the snapshot is the second's
C4_Witness ==
    /\ tpc = "done"
    /\ Len(Evals) = 3
    /\ Evals[1].acc = 50
    /\ Evals[2].acc = 100
    /\ Evals[3].acc = 100
    /\ snapshot = {Evals[2].params}

----------------------------------------------------------------------------
(* Properties of the telemetry sink, checked under SpecTrainAnyWriter *)

\* C11: the telemetry sink is optional: with writer = None training and
\* evaluation run to the end without an error, as they do with a writer.
C11_WriterOptional ==
    /\ tpc # "raised"
    /\ (writer = "none" /\ tpc = "done") => Len(log) = 2 * n_epochs

----------------------------------------------------------------------------
(* Properties of the reserved list and of tag lookups, checked under SpecDict *)

HasDuplicate(list) == \E i, j \in 1..Len(list) : i # j /\ list[i] = list[j]

\* C14: build_dict rejects a reserved list that holds a symbol twice: the
\* call returns no mappings, so returned mappings are always a bijection.
C14_DuplicateReservedRejected ==
    dpc = "built" => ~HasDuplicate(special_tokens)

\* C15: looking up a tag that is not in the tag mapping fails; it never
\* silently gives the id of another tag, such as 'O'.
C15_UnknownTagFails ==
    (/\ dpc = "looked"
     /\ lookup_arg[1] \in LookupTags
     /\ lookup_arg[1] \notin DOMAIN NotebookTag2idx)
        => \A t \in DOMAIN NotebookTag2idx : lookup_ret # <<NotebookTag2idx[t]>>

----------------------------------------------------------------------------
(* Properties of the batches' membership, checked under SpecBatch *)

IsPermutation(p, n) ==
    /\ Len(p) = n
    /\ \A i \in 1..n : p[i] \in 0..(n - 1)
    /\ \A i, j \in 1..n : i # j => p[i] # p[j]

\* C16: over one iteration the batches are the consecutive slices of size
\* batch_size of one permutation of the sample indices (the identity without
\* shuffle): no sample is in two batches or twice in one; with the smaller
\* last batch allowed every sample is in exactly one batch; without it the
\* last N mod batch_size indices of the permutation are in no batch and
\* every batch has batch_size rows.
C16_ContiguousSlices ==
    gpc \in {"running", "done"} =>
        LET n == Len(tokens)
            all == Flatten(served)
        IN  /\ IsPermutation(order, n)
            /\ ~shuffle => order = [i \in 1..n |-> i - 1]
            /\ Len(served) = n_yielded
            /\ \A i \in 1..Len(all) : all[i] = order[i]
            /\ \A b \in 1..Len(served) :
                   /\ Len(served[b]) >= 1
                   /\ Len(served[b]) <= batch_size
                   /\ b < Len(served) => Len(served[b]) = batch_size
                   /\ ~allow_smaller_last_batch => Len(served[b]) = batch_size
                   /\ b = n_yielded => Len(batch.x) = Len(served[b])
            /\ gpc = "done" =>
                   IF allow_smaller_last_batch
                   THEN Len(all) = n
                   ELSE Len(all) = n - (n % batch_size)

\* Three samples shuffled, batch_size 2, no smaller last batch: one batch of
\* two rows, and the last index of the permutation is left out
C16_Witness ==
    /\ gpc = "done"
    /\ shuffle
    /\ ~allow_smaller_last_batch
    /\ Len(tokens) = 3
    /\ batch_size = 2
    /\ order = <<2, 0, 1>>
    /\ served = << <<2, 0>> >>

----------------------------------------------------------------------------
(* Properties of predict_sentence, checked under SpecPredict *)

\* C13: for every non-empty sentence, one token included, predict_sentence
\* returns one tag string per token, the tagger's best tag at each position;
\* and when ground-truth tags are passed, the count it reports is the number
\* of positions where the predicted tag is the passed tag.
C13_PredictAlignedAndCounted ==
    ppc # "call" =>
        /\ ppc = "returned"
        /\ Len(pred_ret) = Len(sentence)
        /\ \A j \in 1..Len(sentence) :
               pred_ret[j] = NotebookIdx2tag[
                   Predict(tagger, [i \in 1..Len(sentence) |-> token2idx[sentence[i]]], j)]
        /\ (tags_arg # <<>> /\ verbosity) =>
               pred_correct = Cardinality({j \in 1..Len(sentence) : pred_ret[j] = tags_arg[j]})

----------------------------------------------------------------------------
(* Properties of test_model, checked under SpecTest *)

\* C12: two runs of test_model on the same tagger and the same dataset return
\* the same accuracy and the same loss, whatever the order in which the
\* generator grouped the sentences.
C12_EvaluateIdempotent ==
    Len(test_returns) = 2 =>
        /\ FracEq(test_returns[1].accuracy, test_returns[2].accuracy)
        /\ FracEq(test_returns[1].loss, test_returns[2].loss)

====
